---- MODULE Spec2Model ----
(***************************************************************************)
(* Model of the acquisition core of Lighthouse (src/SpecEChemProgram.py):  *)
(* the MyWindow object's fields, the GUI handlers that run on the Tk main  *)
(* thread (one atomic action each) and the merge worker thread             *)
(* run_measurement (one action per group of source lines, so that the      *)
(* other threads interleave with it).                                      *)
(*                                                                         *)
(* Units: potentials in mV, scan rates in mV/s, sample period in ms,       *)
(* integration time in microseconds (as in the source), collection period  *)
(* in ms, elapsed times in s. The potentiostat's points are                *)
(* SecondsPerPoint apart.                                                  *)
(***************************************************************************)
EXTENDS Integers, Sequences, FiniteSets, TLC

\* ------------------------------------------------------------------ bounds

\* Start requests that get as far as opening the primary output file.
MaxStarts == 2
\* Points the potentiostat acquires before it reports the run complete.
NPoints == 2
\* Merge ticks begun per output file.
MaxTicks == 2

\* Display threads counted per instrument.
MaxThreads == 2

\* ------------------------------------------------------- program constants

\* Gamry's maximum number of points in a signal, 2^18 - 1 (comment at L829).
MaxSignalPoints == 262143
\* The spectrometer's integration time limits in microseconds (L421, L535).
MinIntegMicros == 1000
MaxIntegMicros == 65000000

\* The first value of self.last_file_flush (L866) and the flush interval in
\* seconds (L911).
FirstFlushMark == -100
FlushInterval == 30

\* ------------------------------------------------------------------ inputs

Kinds == {"Raw Int.", "Raw Int. - Ref", "%T or %R", "Abs"}
Units == {"ms", "s", "min", "hr"}

\* The five potentiostat text boxes, parsed (numeric = FALSE: some box does
\* not parse as a number).
Wave(n, a, b, sr, cyc, sp) ==
    [numeric |-> n, v1 |-> a, v2 |-> b, scanrate |-> sr, cycles |-> cyc,
     sample_period |-> sp]

WaveInputs ==
    { Wave(TRUE, 0, 1000, 10, 1, 30000),     \* 0 -> 1 V at 10 mV/s, 1 cycle, a point every 30 s
      Wave(FALSE, 0, 0, 0, 0, 0),            \* not a number
      Wave(TRUE, 0, 1000, 0, 1, 30000),      \* scan rate 0
      Wave(TRUE, 0, 1000, 10, 1, 0),         \* sample period 0
      Wave(TRUE, 0, 1000, 10, 0, 30000),     \* no cycle
      Wave(TRUE, 1000, 1000, 10, 1, 30000),  \* equal vertex potentials
      Wave(TRUE, 0, 1000, 10, 200, 100) }    \* a point every 0.1 s: 400,000 points

\* The collection-interval box and its unit combo box.
Coll(n, x, u) == [numeric |-> n, num |-> x, unit |-> u]

CollInputs ==
    { Coll(FALSE, 0, "ms"), Coll(TRUE, 1, "ms"), Coll(TRUE, 2, "ms"),
      Coll(TRUE, 1, "s"), Coll(TRUE, 1, "min"), Coll(TRUE, 1, "hr") }

\* What the file system answers to the three open() calls of a start.
OpenOutcomes == [primary : BOOLEAN, reference : BOOLEAN, dark : BOOLEAN]

\* One press of Start!: the widgets' contents at that moment. Every waveform
\* every collection interval, every intensity type and every pair of check
\* boxes is tried with the other widgets at their base values.
BaseWave == Wave(TRUE, 0, 1000, 10, 1, 30000)
BaseColl == Coll(TRUE, 1, "s")

Requests ==
    [wave : WaveInputs, coll : {BaseColl}, kind : {"Raw Int."},
     use_pstat : {TRUE}, use_spec : {TRUE}]
    \cup [wave : {BaseWave}, coll : CollInputs, kind : {"Raw Int."},
          use_pstat : {TRUE}, use_spec : {TRUE}]
    \cup [wave : {BaseWave}, coll : {BaseColl}, kind : Kinds,
          use_pstat : {TRUE}, use_spec : {TRUE}]
    \cup [wave : {BaseWave}, coll : {BaseColl}, kind : {"Raw Int."},
          use_pstat : BOOLEAN, use_spec : BOOLEAN]

\* Seconds between two points of the acquisition curve (the sample period
\* of the waveforms that can run), and the time stamp (now_pstat_pt[1],
\* L883) of its n-th point.
SecondsPerPoint == BaseWave.sample_period \div 1000
PointTime(n) == n * SecondsPerPoint

\* Values the user may type in the integration-time box (microseconds).
IntegChoices == {60000000, 70000000}

\* A spectrum is followed at one wavelength: its intensity there. None
\* (L327-328) is NoSpectrum, np.zeros (L434) is 0, and the spectrometer
\* returns one of Spectra from a capture. With steady light every capture
\* returns the same spectrum.
NoSpectrum == -1
Spectra == {1, 2}
SteadySpectra == {1}

\* What the e-mail dialog (L358) leaves in self.emails: the text typed, or
\* None when the dialog is cancelled.
EmailInputs == {"", "a@lab.org", "None"}

\* ------------------------------------------------------------------- state

VARIABLES
    running,                  \* self.running
    has_potentiostat,         \* self.has_potentiostat (self.potentiostat is not None)
    has_spectrometer,         \* self.has_spectrometer
    integration_time_micros,  \* self.integration_time_micros (assigned iff has_spectrometer)
    has_reference_spec,       \* self.has_reference_spec
    reference_spec,           \* self.reference_spec
    dark_spec,                \* self.dark_spec
    emails,                   \* self.emails
    running_intensity_type,   \* self.running_intensity_type ("unset" before the first start)
    outfile,                  \* self.outfile: the primary output file it refers to
    nfiles,                   \* primary output files created so far
    acq_curve,                \* self.acq_curve: the RcvCurve object
    signal,                   \* number of ramp signals loaded into the potentiostat
    cell,                     \* the potentiostat's cell switch
    pc,                       \* position of each merge worker thread
    elapsed,                  \* each merge worker's local elapsed_time
    last_file_flush,          \* self.last_file_flush
    nticks,                   \* merge ticks begun since the last accepted start
    sent,                     \* the notifications attempted so far (L951-953)
    pstat_poll,               \* position of the thread update_pstat_readinglabels
    spec_poll,                \* position of the thread draw_spec
    most_recent_pstat_pt,     \* self.most_recent_pstat_pt
    should_draw_pstat,        \* self.should_draw_pstat
    plot,                     \* position of each thread plot_pstat_curve
    threads,                  \* display threads started per instrument
    probe,                    \* inputs and results of the computations followed
                              \* on their own (transform paths, run-time estimate)
    report                    \* what the step just taken showed: a message box or
                              \* uncaught exception of start_measurement, the new
                              \* text of the status label, else "none"

vars == <<running, has_potentiostat, has_spectrometer,
          integration_time_micros, has_reference_spec, reference_spec,
          dark_spec, emails, running_intensity_type,
          outfile, nfiles, acq_curve, signal, cell, pc, elapsed,
          last_file_flush, nticks, sent, pstat_poll, spec_poll, probe,
          most_recent_pstat_pt, should_draw_pstat, plot, threads, report>>

gui == <<has_potentiostat, has_spectrometer, integration_time_micros,
         has_reference_spec, reference_spec, dark_spec, emails>>
\* The notifications sent, the two display threads, and the computations
\* followed on their own.
side == <<sent, pstat_poll, spec_poll, probe, threads>>
\* The cached potentiostat point, the plotting flag and the plotting threads.
plots == <<most_recent_pstat_pt, should_draw_pstat, plot>>
session == <<running_intensity_type, outfile, nfiles, acq_curve, signal, nticks>>
worker == <<running, cell, pc, elapsed, last_file_flush>>

Workers == 1..MaxStarts

\* A primary output file: its number (0: self.outfile not assigned yet),
\* whether its handle is open, whether the header block and column row are
\* written, the tokens written after them, how many of these tokens the last
\* flush or close put on disk, and whether the session's reference, dark
\* baseline and raw potentiostat data files exist. Only the file self.outfile
\* refers to is kept: rebinding self.outfile drops the last reference to the
\* previous file object, CPython closes it and nothing writes to it again.
\* kind is the intensity type in the file's name (L725-728) and header
\* (L816), running_intensity_type as L724 has just set it; ref_spec and
\* dark_spec are the spectra written to the baseline files (L760-763,
\* L785-788).
NoFile == [id |-> 0, open |-> FALSE, header |-> FALSE, body |-> <<>>,
           flushed |-> 0, ref |-> FALSE, dark |-> FALSE, raw |-> FALSE,
           kind |-> "unset", ref_spec |-> NoSpectrum, dark_spec |-> NoSpectrum]
NewFile(i) == [id |-> i, open |-> TRUE, header |-> FALSE, body |-> <<>>,
               flushed |-> 0, ref |-> FALSE, dark |-> FALSE, raw |-> FALSE,
               kind |-> "unset", ref_spec |-> NoSpectrum, dark_spec |-> NoSpectrum]

\* What worker w writes for one record: "\n" and "time,potential,current"
\* (L902-904), then the intensity columns (L906-907).
RowStart(w, t) == [k |-> "row", w |-> w, t |-> t]
Intens(w) == [k |-> "int", w |-> w, t |-> 0]

\* What L889-899 make of a capture: the intensity type applied, and the
\* reference and dark spectra that enter the result (NoSpectrum for one the
\* type does not use).
Transformed ==
    [kind |-> running_intensity_type,
     ref  |-> IF running_intensity_type = "Raw Int."
                THEN NoSpectrum ELSE reference_spec,
     dark |-> IF running_intensity_type \in {"Raw Int.", "Raw Int. - Ref"}
                THEN NoSpectrum ELSE dark_spec]

NoCurve == [st |-> "none", n |-> 0]

\* self.most_recent_pstat_pt: not assigned before the first pass of a
\* merge loop (nothing in __init__ creates it); afterwards what
\* last_data_point() returned (a point, or None) and the session that
\* stored it.
NoPoint == [by |-> 0, pt |-> "unassigned"]
CachedPoint(w, n) == [by |-> w, pt |-> IF n = 0 THEN "None" ELSE "point"]

\* The display threads alive per instrument (none of them ever returns:
\* has_potentiostat and should_draw_spec are never reset). Every connection
\* starts one more (L383, L437-439); they are all counted where all is set,
\* else only the one that is followed.
NoThreads == [all |-> FALSE, pstat |-> 0, spec |-> 0]
OneMore(n) == IF ~threads.all THEN 1 ELSE IF n < MaxThreads THEN n + 1 ELSE n

\* No computation is being followed on its own.
NoProbe == [on |-> "none"]

InitProgram ==
    /\ running = FALSE
    /\ has_potentiostat = FALSE
    /\ has_spectrometer = FALSE
    /\ integration_time_micros = 0
    /\ has_reference_spec = FALSE
    /\ reference_spec = NoSpectrum
    /\ dark_spec = NoSpectrum
    /\ emails = ""
    /\ sent = <<>>
    /\ pstat_poll = "none"
    /\ spec_poll = "none"
    /\ most_recent_pstat_pt = NoPoint
    /\ should_draw_pstat = FALSE
    /\ plot = [w \in Workers |-> "none"]
    /\ running_intensity_type = "unset"
    /\ outfile = NoFile
    /\ nfiles = 0
    /\ acq_curve = NoCurve
    /\ signal = 0
    /\ cell = FALSE
    /\ pc = [w \in Workers |-> "none"]
    /\ elapsed = [w \in Workers |-> 0]
    /\ last_file_flush = FirstFlushMark
    /\ nticks = 0
    /\ report = "none"

\* Of the display threads that repeated connections start, one per
\* instrument is followed.
Init ==
    /\ InitProgram
    /\ threads = NoThreads
    /\ probe = NoProbe


\* A step that shows no message box and raises nothing in start_measurement.
Silent == report' = "none"

\* ------------------------------------------------------ GUI thread handlers

\* connect_pstat (L366-384): a device is enumerated and opened, or none is
\* found. The thread that updates the reading labels is started (L383); of
\* the threads that repeated connections start, one is followed.
connect_pstat(found) ==
    /\ has_potentiostat' = (has_potentiostat \/ found)
    /\ pstat_poll' = IF found /\ pstat_poll = "none" THEN "check" ELSE pstat_poll
    /\ threads' = IF found THEN [threads EXCEPT !.pstat = OneMore(@)] ELSE threads
    /\ UNCHANGED <<has_spectrometer, integration_time_micros,
                   has_reference_spec, reference_spec, dark_spec, emails,
                   sent, spec_poll, probe, plots, session, worker>>
    /\ Silent

\* connect_spectrometer (L409-439), a device being available: the integration
\* time becomes the device minimum, the stored reference is forgotten
\* (L433; self.reference_spec itself is left), the dark spectrum becomes
\* zeros (L434) and the thread draw_spec is started (L437-439); of the
\* threads that repeated connections start, one is followed.
connect_spectrometer ==
    /\ has_spectrometer' = TRUE
    /\ integration_time_micros' = MinIntegMicros
    /\ has_reference_spec' = FALSE
    /\ dark_spec' = 0
    /\ spec_poll' = IF spec_poll = "none" THEN "idle" ELSE spec_poll
    /\ threads' = [threads EXCEPT !.spec = OneMore(@)]
    /\ UNCHANGED <<has_potentiostat, reference_spec, emails, sent, pstat_poll,
                   probe, plots, session, worker>>
    /\ Silent

\* set_integ_time (L528-542): strictly inside the device limits, else a warning.
set_integ_time(t) ==
    /\ has_spectrometer
    /\ integration_time_micros' =
         IF t > MinIntegMicros /\ t < MaxIntegMicros
           THEN t ELSE integration_time_micros
    /\ UNCHANGED <<has_potentiostat, has_spectrometer, has_reference_spec,
                   reference_spec, dark_spec, emails, side, plots, session, worker>>
    /\ Silent

\* store_reference_spectrum (L545-548); s is the spectrum captured.
store_reference_spectrum(s) ==
    /\ has_spectrometer
    /\ reference_spec' = s
    /\ has_reference_spec' = TRUE
    /\ UNCHANGED <<has_potentiostat, has_spectrometer,
                   integration_time_micros, dark_spec, emails, side, plots, session,
                   worker>>
    /\ Silent

\* store_dark_spectrum (L552-554); s is the spectrum captured.
store_dark_spectrum(s) ==
    /\ has_spectrometer
    /\ dark_spec' = s
    /\ UNCHANGED <<has_potentiostat, has_spectrometer,
                   integration_time_micros, has_reference_spec,
                   reference_spec, emails, side, plots, session, worker>>
    /\ Silent

\* edit_emails (L357-358): self.emails becomes what the dialog returns.
edit_emails(e) ==
    /\ emails' = e
    /\ UNCHANGED <<has_potentiostat, has_spectrometer,
                   integration_time_micros, has_reference_spec,
                   reference_spec, dark_spec, side, plots, session, worker>>
    /\ Silent

\* ------------------------------------------------------- start_measurement

\* L688-697: the collection interval converted to ms.
CollectionTimeMs(c) ==
    CASE c.unit = "ms"  -> c.num * 1
      [] c.unit = "s"   -> c.num * 1000
      [] c.unit = "min" -> c.num * 60 * 1000
      [] c.unit = "hr"  -> c.num * 3600 * 1000

\* As if L700 compared with < instead of <=.
CollectionCheckFailsLt(c) ==
    CollectionTimeMs(c) < integration_time_micros \div 1000

\* L681, L700: collection_time_ms <= integration_time_micros / 1000. For a
\* whole number of ms that is collection_time_ms <= the quotient rounded down.
CollectionCheckFails(c) ==
    CollectionTimeMs(c) <= integration_time_micros \div 1000

\* L705: the chosen intensity type needs a reference and none is stored.
ReferenceCheckFails(kind) ==
    kind # "Raw Int." /\ ~has_reference_spec

\* L669-715: the checks in source order; "ok" when all pass. Without a
\* spectrometer ever connected self.integration_time_micros does not exist
\* and L681 raises AttributeError, which nothing catches.
Validate(r) ==
    IF ~r.wave.numeric THEN "Value Error (PStat parameters)"
    ELSE IF ~has_spectrometer THEN "AttributeError (integration_time_micros)"
    ELSE IF ~r.coll.numeric THEN "Value Error (collection frequency)"
    ELSE IF CollectionCheckFails(r.coll) THEN "Collection Frequency Error"
    ELSE IF ReferenceCheckFails(r.kind) THEN "Error saving file"
    ELSE IF r.use_pstat /\ ~has_potentiostat THEN "Potentiostat Not Connected"
    ELSE IF r.use_spec /\ ~has_spectrometer THEN "Spectrometer Not Connected"
    ELSE "ok"

Abs(x) == IF x < 0 THEN -x ELSE x

\* Waveforms signal_r_up_dn_new (L833) may be unable to build: a zero or
\* negative scan rate or sample period, no cycle, or no potential range.
\* Nothing in start_measurement tests these (L669-678 only parse).
DriverMayRefuse(w) ==
    w.scanrate <= 0 \/ w.sample_period <= 0 \/ w.cycles < 1 \/ w.v1 = w.v2

\* Points of the ramp signal built at L833-835: run time over sample period.
PointCount(w) ==
    IF w.scanrate <= 0 \/ w.sample_period <= 0 THEN 0
    ELSE (Abs(w.v2 - w.v1) * 2 * w.cycles * 1000) \div (w.scanrate * w.sample_period)

\* L724-861 for a request that passed every check: what the handler has done
\* when it returns or an exception leaves it. o: the answers of the three
\* open() calls; drv: whether the driver accepts a waveform it may refuse.
\*   L734-738  primary open fails: message box, return
\*   L749      reference open fails: OSError, uncaught
\*   L774      dark open fails: OSError, uncaught
\*   L833      self.potentiostat is None: AttributeError, uncaught;
\*             more than MaxSignalPoints points: the driver raises (L829-831)
StartOutcome(r, o, drv) ==
    LET f0 == [NewFile(nfiles + 1) EXCEPT !.kind = r.kind]
        fR == IF has_reference_spec
                THEN [f0 EXCEPT !.ref = TRUE, !.ref_spec = reference_spec]
                ELSE f0
        fD == [fR EXCEPT !.dark = TRUE, !.dark_spec = dark_spec]
        fH == [fD EXCEPT !.header = TRUE]
        Out(msg, opened, f, started) ==
            [report |-> msg, opened |-> opened, file |-> f, started |-> started]
    IN  IF ~o.primary THEN Out("Error opening file", FALSE, f0, FALSE)
        ELSE IF has_reference_spec /\ ~o.reference THEN Out("OSError", TRUE, f0, FALSE)
        ELSE IF ~o.dark THEN Out("OSError", TRUE, fR, FALSE)
        ELSE IF ~has_potentiostat THEN Out("AttributeError (potentiostat)", TRUE, fH, FALSE)
        ELSE IF PointCount(r.wave) > MaxSignalPoints THEN Out("GamryError", TRUE, fH, FALSE)
        ELSE IF DriverMayRefuse(r.wave) /\ ~drv THEN Out("GamryError", TRUE, fH, FALSE)
        ELSE Out("Running...", TRUE, fH, TRUE)

\* As if the output file were opened (L735) ahead of the checks.
RejectedAfterOpen(msg) ==
    /\ nfiles < MaxStarts
    /\ report' = msg
    /\ outfile' = NewFile(nfiles + 1)
    /\ nfiles' = nfiles + 1
    /\ UNCHANGED <<gui, side, plots, running_intensity_type, acq_curve, signal, nticks, worker>>

\* A request refused by one of the checks of L669-715: the message box and
\* return (or the uncaught AttributeError of L681), nothing else.
Rejected(msg) ==
    /\ report' = msg
    /\ UNCHANGED <<gui, side, plots, session, worker>>

\* start_measurement (L663-861).
start_measurement(r) ==
    IF running THEN Silent /\ UNCHANGED <<gui, side, plots, session, worker>>
    ELSE IF Validate(r) # "ok" THEN Rejected(Validate(r))
    ELSE
      /\ nfiles < MaxStarts
      /\ \E o \in OpenOutcomes, drv \in BOOLEAN :
           /\ (~has_reference_spec => o.reference)  \* no reference file to open
           /\ (~DriverMayRefuse(r.wave) => drv)          \* nothing for the driver to refuse
           /\ LET out == StartOutcome(r, o, drv)
                  id  == nfiles + 1
              IN  /\ report' = out.report
                  /\ running_intensity_type' = r.kind
                  /\ IF out.opened
                       THEN /\ outfile' = out.file
                            /\ nfiles' = id
                       ELSE UNCHANGED <<outfile, nfiles>>
                  /\ IF out.started
                       THEN /\ signal' = signal + 1
                            /\ acq_curve' = [st |-> "new", n |-> 0]
                            /\ nticks' = 0
                            /\ pc' = [pc EXCEPT ![id] = "begin"]
                       ELSE UNCHANGED <<signal, acq_curve, nticks, pc>>
                  /\ UNCHANGED <<gui, side, plots, running, cell, elapsed, last_file_flush>>

\* acq_curve.stop() (L1088): a running acquisition stops, any other curve is
\* left as it is.
StopCurve(c) == IF c.st = "running" THEN [c EXCEPT !.st = "aborted"] ELSE c

\* As if abort_measurement called stop() without testing self.running.
AfterAbortAlways == StopCurve(acq_curve)

\* The curve after abort_measurement (L1083-1088): stopped only if
\* self.running is set.
AfterAbort == IF running THEN StopCurve(acq_curve) ELSE acq_curve

\* abort_measurement (L1083-1088).
abort_measurement ==
    /\ acq_curve' = AfterAbort
    /\ UNCHANGED <<gui, side, plots, running_intensity_type, outfile, nfiles, signal,
                   nticks, worker>>
    /\ Silent

\* ------------------------------------------------------------ potentiostat

\* The instrument acquires one more point into the curve's buffer.
PstatSample ==
    /\ acq_curve.st = "running"
    /\ acq_curve.n < NPoints
    /\ acq_curve' = [acq_curve EXCEPT !.n = @ + 1]
    /\ UNCHANGED <<gui, side, plots, running_intensity_type, outfile, nfiles, signal,
                   nticks, worker>>
    /\ Silent

\* The ramp signal is exhausted: the curve stops running.
PstatComplete ==
    /\ acq_curve.st = "running"
    /\ acq_curve.n = NPoints
    /\ acq_curve' = [acq_curve EXCEPT !.st = "done"]
    /\ UNCHANGED <<gui, side, plots, running_intensity_type, outfile, nfiles, signal,
                   nticks, worker>>
    /\ Silent

\* set_stop_i_max(True, 5) (L850): the instrument acquires a point whose
\* current is 5 A or more and stops the acquisition; that point is the last
\* of the curve.
PstatTrip ==
    /\ acq_curve.st = "running"
    /\ acq_curve.n < NPoints
    /\ acq_curve' = [st |-> "tripped", n |-> acq_curve.n + 1]
    /\ UNCHANGED <<gui, side, plots, running_intensity_type, outfile, nfiles, signal,
                   nticks, worker>>
    /\ Silent

\* ------------------------------------------- run_measurement (merge worker)

Goto(w, l) == pc' = [pc EXCEPT ![w] = l]

\* The thread ends (normally or by an uncaught exception): its locals are gone.
Ends(w, l) ==
    /\ pc' = [pc EXCEPT ![w] = l]
    /\ elapsed' = [elapsed EXCEPT ![w] = 0]

Write(tok) == outfile' = [outfile EXCEPT !.body = Append(@, tok)]

\* L866-869: last_file_flush, running = True, should_draw_pstat.
w_begin(w) ==
    /\ pc[w] = "begin"
    /\ last_file_flush' = FirstFlushMark
    /\ running' = TRUE
    /\ should_draw_pstat' = TRUE
    /\ Goto(w, "arm")
    /\ UNCHANGED <<gui, side, most_recent_pstat_pt, plot, session, cell, elapsed>>
    /\ Silent

\* L871-877: cell on, acq_curve.run(True), plotting thread started.
w_arm(w) ==
    /\ pc[w] = "arm"
    /\ cell' = TRUE
    /\ acq_curve' = [acq_curve EXCEPT !.st = "running"]
    /\ plot' = [plot EXCEPT ![w] = "wait"]
    /\ Goto(w, "loop")
    /\ UNCHANGED <<gui, side, most_recent_pstat_pt, should_draw_pstat,
                   running_intensity_type, outfile, nfiles, signal,
                   nticks, running, elapsed, last_file_flush>>
    /\ Silent

\* L879-885: while self.acq_curve.running(), read the last data point and
\* keep it in most_recent_pstat_pt (L882). last_data_point() is None while
\* the curve holds no point (L635), and None[1] raises TypeError (L883).
w_loop(w) ==
    /\ pc[w] = "loop"
    /\ IF acq_curve.st # "running"
         THEN /\ Goto(w, "shutdown")
              /\ UNCHANGED <<nticks, elapsed, most_recent_pstat_pt>>
         ELSE /\ nticks < MaxTicks
              /\ nticks' = nticks + 1
              /\ most_recent_pstat_pt' = CachedPoint(w, acq_curve.n)
              /\ IF acq_curve.n = 0
                   THEN Ends(w, "crashed")
                   ELSE /\ elapsed' = [elapsed EXCEPT ![w] = PointTime(acq_curve.n)]
                        /\ Goto(w, "capture")
    /\ UNCHANGED <<gui, side, should_draw_pstat, plot, running_intensity_type,
                   outfile, nfiles, acq_curve, signal, running, cell,
                   last_file_flush>>
    /\ Silent

\* L887-899: the spectrometer capture, then the intensity type chosen at
\* start applied to it.
w_capture(w) ==
    /\ pc[w] = "capture"
    /\ Goto(w, "write_row")
    /\ UNCHANGED <<gui, side, plots, session, running, cell, elapsed, last_file_flush>>
    /\ Silent

\* L902-904: newline, then time, potential and current. A write on a closed
\* file raises ValueError, a write the disk refuses OSError (io_ok = FALSE).
w_write_row(w) ==
    /\ pc[w] = "write_row"
    /\ \E io_ok \in BOOLEAN :
         /\ (~outfile.open => io_ok)
         /\ IF outfile.open /\ io_ok
              THEN /\ Write(RowStart(w, elapsed[w]))
                   /\ Goto(w, "write_int")
                   /\ UNCHANGED elapsed
              ELSE /\ Ends(w, "crashed")
                   /\ UNCHANGED outfile
    /\ UNCHANGED <<gui, side, plots, running_intensity_type, nfiles, acq_curve, signal,
                   nticks, running, cell, last_file_flush>>
    /\ Silent

\* L906-915: the intensity columns, the flush when more than FlushInterval
\* seconds of elapsed time have passed since the last one, the sleep.
w_write_int(w) ==
    /\ pc[w] = "write_int"
    /\ \E io_ok \in BOOLEAN :
         /\ (~outfile.open => io_ok)
         /\ IF outfile.open /\ io_ok
              THEN LET body  == Append(outfile.body, Intens(w))
                       flush == elapsed[w] - last_file_flush > FlushInterval
                   IN  /\ outfile' =
                            [outfile EXCEPT
                               !.body = body,
                               !.flushed = IF flush THEN Len(body) ELSE @]
                       /\ last_file_flush' =
                            IF flush THEN elapsed[w] ELSE last_file_flush
                       /\ Goto(w, "loop")
                       /\ UNCHANGED elapsed
              ELSE /\ Ends(w, "crashed")
                   /\ UNCHANGED <<outfile, last_file_flush>>
    /\ UNCHANGED <<gui, side, plots, running_intensity_type, nfiles, acq_curve, signal,
                   nticks, running, cell>>
    /\ Silent

\* L919-920: cell off.
w_shutdown(w) ==
    /\ pc[w] = "shutdown"
    /\ cell' = FALSE
    /\ Goto(w, "close")
    /\ UNCHANGED <<gui, side, plots, session, running, elapsed, last_file_flush>>
    /\ Silent

\* L922-926: the primary file closed (what was buffered goes to disk),
\* should_draw_pstat = False.
w_close(w) ==
    /\ pc[w] = "close"
    /\ outfile' = [outfile EXCEPT !.open = FALSE,
                                  !.flushed = Len(outfile.body)]
    /\ should_draw_pstat' = FALSE
    /\ Goto(w, "dump")
    /\ UNCHANGED <<gui, side, most_recent_pstat_pt, plot, running_intensity_type,
                   nfiles, acq_curve, signal, nticks, running, cell, elapsed,
                   last_file_flush>>
    /\ Silent

\* L931-946: the raw curve written to its own file; its open() may fail
\* (OSError, uncaught).
w_dump(w) ==
    /\ pc[w] = "dump"
    /\ \E io_ok \in BOOLEAN :
         IF io_ok
           THEN /\ outfile' = [outfile EXCEPT !.raw = TRUE]
                /\ Goto(w, "finish")
                /\ UNCHANGED elapsed
           ELSE /\ Ends(w, "crashed")
                /\ UNCHANGED outfile
    /\ UNCHANGED <<gui, side, plots, running_intensity_type, nfiles, acq_curve, signal,
                   nticks, running, cell, last_file_flush>>
    /\ Silent

\* As if self.running = False (L949) came after the e-mails (L951-953).
w_finish_before_reset(w) ==
    /\ pc[w] = "finish"
    /\ report' = "not running"
    /\ Ends(w, IF emails # "" THEN "notify" ELSE "done")
    /\ UNCHANGED <<gui, side, plots, session, running, cell, last_file_flush>>

\* L948-951: the status label says "not running", running = False; the
\* thread goes on to the notification e-mails unless self.emails is "".
w_finish(w) ==
    /\ pc[w] = "finish"
    /\ running' = FALSE
    /\ report' = "not running"
    /\ Ends(w, IF emails # "" THEN "notify" ELSE "done")
    /\ UNCHANGED <<gui, side, plots, session, cell, last_file_flush>>

run_measurement(w) ==
    \/ w_begin(w) \/ w_arm(w) \/ w_loop(w) \/ w_capture(w)
    \/ w_write_row(w) \/ w_write_int(w) \/ w_shutdown(w) \/ w_close(w)
    \/ w_dump(w) \/ w_finish(w)

\* ------------------------------------------------- notification (L951-1060)

\* try_send_notif_emails and try_send_file_emails, called by the merge
\* worker after running = False (L951-953). The zip holds the file
\* self.filename names, the dark and raw files, and the reference file when
\* self.has_reference_spec is set at that moment (L1009); the recipients
\* are self.emails at that moment (L966, L1030). A failure the functions
\* catch is printed ("logged"); any other exception (self.emails is None at
\* L966, a connection error that is neither SMTPConnectError nor
\* SMTPAuthenticationError) leaves the thread ("raised").
NotifyResults == {"sent", "logged", "raised"}

notify(w) ==
    /\ pc[w] = "notify"
    /\ \E res \in NotifyResults :
         /\ (emails = "None" => res # "sent")
         /\ sent' = Append(sent, [w |-> w, file |-> outfile.id,
                                  with_ref |-> has_reference_spec,
                                  to |-> emails, result |-> res])
         /\ Ends(w, IF res = "raised" THEN "crashed" ELSE "done")
    /\ UNCHANGED <<gui, pstat_poll, spec_poll, probe, threads, plots, session, running, cell,
                   last_file_flush>>
    /\ Silent

\* ------------------------------------------------------- display threads

\* update_pstat_readinglabels, L388-394: the potentiostat is connected;
\* while self.running is set the thread takes the cached point (L395-396),
\* else it enters measure_v / measure_i (L398-399). Indexing the cached
\* point raises AttributeError while most_recent_pstat_pt is not assigned
\* and TypeError while it is None; nothing catches either.
pstat_labels_check ==
    /\ pstat_poll = "check"
    /\ pstat_poll' = IF ~running THEN "measure"
                     ELSE IF most_recent_pstat_pt.pt = "point" THEN "cached"
                     ELSE "crashed"
    /\ UNCHANGED <<gui, sent, spec_poll, probe, threads, plots, session, worker>>
    /\ Silent

\* L398-406: the measure calls return (or the cached point is taken), the
\* labels are updated, the thread sleeps and comes back to its test.
pstat_labels_show ==
    /\ pstat_poll \in {"cached", "measure"}
    /\ pstat_poll' = "check"
    /\ UNCHANGED <<gui, sent, spec_poll, probe, threads, plots, session, worker>>
    /\ Silent

\* draw_spec, L448-453: should_draw_spec and has_spectrometer are set; the
\* thread enters spectrometer.intensities.
draw_spec_capture ==
    /\ spec_poll = "idle"
    /\ spec_poll' = "capture"
    /\ UNCHANGED <<gui, sent, pstat_poll, probe, threads, plots, session, worker>>
    /\ Silent

\* L453-503: the capture returns, the spectrum is drawn, the thread sleeps.
draw_spec_draw ==
    /\ spec_poll = "capture"
    /\ spec_poll' = "idle"
    /\ UNCHANGED <<gui, sent, pstat_poll, probe, threads, plots, session, worker>>
    /\ Silent

\* ----------------------------------------------------------- specification

\* L665-666 returns before reading any widget while running is set: one
\* request then stands for them all.
Pressed == IF running THEN {CHOOSE r \in Requests : TRUE} ELSE Requests

Next ==
    \/ \E found \in BOOLEAN : connect_pstat(found)
    \/ connect_spectrometer
    \/ \E t \in IntegChoices : set_integ_time(t)
    \/ \E s \in SteadySpectra : store_reference_spectrum(s)
    \/ \E r \in Pressed : start_measurement(r)
    \/ abort_measurement
    \/ PstatSample
    \/ PstatComplete
    \/ PstatTrip
    \/ \E w \in Workers : run_measurement(w)

Spec == Init /\ [][Next]_vars

\* ------------------------------------------------------------------ claims

\* A merge worker thread that exists and has not ended.
Alive(w) == pc[w] \notin {"none", "done", "crashed"}

\* The message boxes with which start_measurement refuses a request in its
\* checks, before anything is opened.
ValidationMessages ==
    {"Value Error (PStat parameters)", "Value Error (collection frequency)",
     "Collection Frequency Error", "Error saving file",
     "Potentiostat Not Connected", "Spectrometer Not Connected"}

\* C1: at any moment at most one session is in progress: a start request
\* issued after an accepted start and before that session has finished
\* starts no second merge worker, in every interleaving of the two requests.
C1_AtMostOneSession ==
    Cardinality({w \in Workers : Alive(w)}) <= 1

\* C2: a start request that is rejected leaves the system as it was: no
\* output file is created or left open, no command reaches the potentiostat
\* (no signal loaded, cell and curve untouched), no worker is started and the
\* session stays idle. For the rejections of the checks nothing but the
\* message changes; when the primary file cannot be opened the intensity
\* type remembered for the run may have changed as well.
C2_RejectionHasNoEffect ==
    [][ report' \in ValidationMessages \cup {"Error opening file"}
        => /\ UNCHANGED <<outfile, nfiles, acq_curve, signal, cell, pc,
                          running, nticks, elapsed, gui, side>>
           /\ ~running'
           /\ (report' \in ValidationMessages
                 => UNCHANGED running_intensity_type) ]_vars

\* C2 witness: a request was refused by the collection-interval check and
\* there is no output file, no signal in the potentiostat and no worker.
C2_Witness ==
    /\ report = "Collection Frequency Error"
    /\ outfile = NoFile
    /\ nfiles = 0
    /\ signal = 0
    /\ ~cell
    /\ \A w \in Workers : pc[w] = "none"

\* C3: a start request whose intensity type is not "Raw Int." while no
\* reference is stored creates no output file, and the merge loop never
\* applies an intensity type that needs the reference while none is stored.
C3_NoTransformWithoutReference ==
    /\ [][ nfiles' # nfiles
           => (running_intensity_type' = "Raw Int." \/ has_reference_spec) ]_vars
    /\ [](\A w \in Workers :
            (pc[w] = "capture" /\ running_intensity_type # "Raw Int.")
                => has_reference_spec)

\* The checks that come before the connection checks pass for request r.
PassesEarlierChecks(r) ==
    /\ r.wave.numeric
    /\ r.coll.numeric
    /\ ~CollectionCheckFails(r.coll)
    /\ ~ReferenceCheckFails(r.kind)

\* C4: a start request that selects an instrument which is not connected
\* (never connected included) is answered with the connection message of
\* that instrument and changes nothing else.
C4_UnconnectedInstrumentRejected ==
    [][ \A r \in Requests :
          ( /\ ~running
            /\ PassesEarlierChecks(r)
            /\ \/ r.use_pstat /\ ~has_potentiostat
               \/ r.use_spec /\ ~has_spectrometer
            /\ start_measurement(r) )
          => /\ report' \in {"Potentiostat Not Connected",
                             "Spectrometer Not Connected"}
             /\ UNCHANGED <<gui, side, plots, session, worker>> ]_vars

\* The unit table of the collection interval, in ms.
UnitMs(u) ==
    CASE u = "ms" -> 1 [] u = "s" -> 1000 [] u = "min" -> 60000
      [] u = "hr" -> 3600000

\* The request's merge period exceeds the integration time: period in ms
\* times 1000 > integration time in microseconds, written without the
\* product (the period is a whole number of ms).
PeriodExceedsIntegration(r) ==
    r.coll.num * UnitMs(r.coll.unit) > integration_time_micros \div 1000

ViolatesWaveformRanges(w) ==
    w.scanrate <= 0 \/ w.sample_period <= 0 \/ w.cycles < 1 \/ w.v1 = w.v2

\* C6: a start request whose numeric waveform parameters are out of range
\* is rejected before anything happens: it creates no output file (and so
\* loads no signal and starts no worker). Stated for the starts whose files
\* all open.
C6_OutOfRangeWaveformRejected ==
    [][ (nfiles' # nfiles /\ outfile'.header)
        => \A r \in Requests :
             (r.wave.numeric /\ ViolatesWaveformRanges(r.wave))
                => ~start_measurement(r) ]_vars

\* C7: a start request whose waveform would have more points than the
\* potentiostat accepts is rejected by the checks, before the output file
\* is opened, so that no output file is created or left open. Stated for
\* the starts whose files all open.
C7_TooManyPointsRejected ==
    [][ (nfiles' # nfiles /\ outfile'.header /\ outfile'.open)
        => \A r \in Requests :
             (r.wave.numeric /\ PointCount(r.wave) > MaxSignalPoints)
                => ~start_measurement(r) ]_vars

\* C8: when the primary, the reference or the dark-baseline file cannot be
\* opened, the start ends with no file handle of its own left open, no
\* worker started and the session idle.
C8_OpenFailureLeavesNothingOpen ==
    [][ report' \in {"Error opening file", "OSError"}
        => /\ (outfile' = outfile \/ ~outfile'.open)
           /\ pc' = pc
           /\ ~running' ]_vars

\* The records begun in the current output file, in file order.
Rows == SelectSeq(outfile.body, LAMBDA tok : tok.k = "row")

\* C9: the records a run of merge ticks appends to a file have strictly
\* increasing elapsed times, whatever the timing of the ticks and of the
\* potentiostat's samples.
C9_ElapsedStrictlyIncreasing ==
    \A i \in 1..(Len(Rows) - 1) : Rows[i].t < Rows[i + 1].t

\* Every record begun in the sequence of tokens is complete: a row start is
\* followed at once by the intensity columns of the same writer.
CompleteRecords(body) ==
    /\ Len(body) % 2 = 0
    /\ \A i \in 1..Len(body) :
         IF i % 2 = 1
           THEN body[i].k = "row"
           ELSE body[i].k = "int" /\ body[i].w = body[i - 1].w

\* C10: once the loop has seen the acquisition stopped (the worker is in its
\* shutdown) nothing more is appended to the output file, and a closed
\* output file holds complete records only.
C10_NoRecordAfterStop ==
    [][ /\ ( (\E w \in Workers : pc[w] \in {"shutdown", "close", "dump", "finish"})
             /\ outfile'.id = outfile.id )
           => outfile'.body = outfile.body
        /\ (outfile'.id > 0 /\ ~outfile'.open)
           => CompleteRecords(outfile'.body) ]_vars

\* The merge worker has left its loop and is in, or through, its shutdown.
LeftLoop(w) == pc[w] \in {"shutdown", "close", "dump", "finish"}

\* C11: once the potentiostat has tripped on an over-limit current the
\* session ends within the tick in flight: the acquisition is not started
\* again and no new merge tick begins; and the cell has been commanded off
\* (and is off) when running becomes False.
C11_TripEndsSession ==
    [][ /\ acq_curve.st = "tripped"
           => /\ acq_curve'.st \in {"tripped", "new"}
              /\ (acq_curve'.st = "tripped" => nticks' = nticks)
        /\ (running /\ ~running') => ~cell' ]_vars

\* C12: the sample on which the trip was decided is the sample recorded for
\* the tick that sees the trip: when the loop has been left after a trip, the
\* file holds a record of the tripping point (the last point of the curve).
C12_TripSampleIsRecorded ==
    (acq_curve.st = "tripped" /\ \E w \in Workers : LeftLoop(w))
       => \E i \in 1..Len(Rows) : Rows[i].t = PointTime(acq_curve.n)


\* A start request was accepted and its merge worker has not left the loop.
InProgress(w) == pc[w] \in {"begin", "arm", "loop", "capture", "write_row", "write_int"}

\* C13: whenever a start request has been accepted and its merge worker has
\* not finished, an abort request stops the acquisition: pressing Abort in
\* any such state, the worker's startup included, leaves no acquisition that
\* is running or still to be run.
C13_AbortNeverDropped ==
    (\E w \in Workers : InProgress(w))
       => AfterAbort.st \notin {"new", "running"}

\* C14: once an abort request has stopped the acquisition, the stop is seen
\* at the top of the next tick: no new tick begins (only the tick in flight
\* is completed), a worker at the loop test leaves the loop, and the
\* acquisition is not running again until a new session is set up.
C14_StopSeenAtNextTick ==
    [][ acq_curve.st = "aborted"
           => /\ acq_curve'.st \in {"aborted", "new"}
              /\ (acq_curve'.st = "aborted" => nticks' = nticks)
              /\ \A w \in Workers :
                    (pc[w] = "loop" /\ pc'[w] # "loop") => pc'[w] = "shutdown" ]_vars


\* C15: a write that fails while a record is appended ends the session as
\* failed at once: the failure is reported, running is False and the cell
\* is off in the state the failing write leaves, and what the file held
\* is kept.
C15_WriteFailureEndsSession ==
    [][ \A w \in Workers :
           (pc[w] \in {"write_row", "write_int"} /\ pc'[w] = "crashed")
              => /\ ~running'
                 /\ ~cell'
                 /\ report' # "none"
                 /\ outfile'.body = outfile.body ]_vars


\* C16: the shutdown of a session runs in order. The primary file is closed
\* only with the cell off, the raw potentiostat file is written only with
\* the primary file closed and complete on disk, and running becomes False
\* only after all three.
C16_ShutdownInOrder ==
    /\ [](\A w \in Workers :
             /\ pc[w] \in {"close", "dump", "finish"} => ~cell
             /\ pc[w] \in {"dump", "finish"}
                   => (~outfile.open /\ outfile.flushed = Len(outfile.body))
             /\ pc[w] = "finish" => outfile.raw)
    /\ [][ (running /\ ~running')
              => /\ ~cell'
                 /\ ~outfile'.open
                 /\ outfile'.flushed = Len(outfile'.body)
                 /\ outfile'.raw ]_vars


\* C17: the end of an aborted session is told apart from a completed one:
\* the report given for a session that ran to its end ("not running") is
\* never the one given when the acquisition was stopped by an abort.
C17_AbortReportedDifferently ==
    [][ report' = "not running" => acq_curve.st # "aborted" ]_vars


\* The scheduling under which termination is claimed: each merge worker
\* thread keeps being scheduled while it has a step to take (every call it
\* makes returns), and the potentiostat keeps acquiring until its signal is
\* exhausted and then reports the run complete.
FairSpec ==
    /\ Spec
    /\ \A w \in Workers : WF_vars(run_measurement(w))
    /\ WF_vars(PstatSample \/ PstatComplete)

\* C18: under FairSpec every session that has set running reaches the end
\* of its shutdown, where running is False again.
C18_SessionTerminates == running ~> ~running


\* C19: every record whose elapsed time is at most that of the most recent
\* flush (last_file_flush) was written before that flush: the record, with
\* its intensity columns, lies in the part of the file already on disk.
C19_FlushCoversEarlierRecords ==
    \A i \in 1..Len(outfile.body) :
       (outfile.body[i].k = "row" /\ outfile.body[i].t <= last_file_flush)
          => i + 1 <= outfile.flushed

\* C20: a tick that appends a record flushes the file whenever 30 s or more
\* of elapsed time have passed since the last flush, so that the tick ends
\* with its record less than 30 s past the last flush; the tick that
\* appends the first record of a file flushes it.
C20_FlushEveryThirtySeconds ==
    [][ \A w \in Workers :
           (pc[w] = "write_int" /\ pc'[w] = "loop")
              => /\ elapsed[w] - last_file_flush' < FlushInterval
                 /\ (Len(outfile.body) = 1
                        => outfile'.flushed = Len(outfile'.body)) ]_vars


\* C21: the intensity type applied to a capture by the merge worker is the
\* one selected at the accepted start that created the output file the
\* record goes to, the type in that file's name and header.
C21_KindFixedAtStart ==
    [][ \A w \in Workers :
           (pc[w] = "capture" /\ pc'[w] = "write_row")
              => Transformed.kind = outfile.kind ]_vars


\* The slice of the program in which the baselines matter: the instruments
\* are connected, reference and dark spectra are stored (the light changes
\* between two reference captures), and runs are started with an intensity
\* type that uses both.
BaselineRequests ==
    [wave : {BaseWave}, coll : {BaseColl}, kind : {"Abs"},
     use_pstat : {TRUE}, use_spec : {TRUE}]

NextBaselines ==
    \/ connect_pstat(TRUE)
    \/ connect_spectrometer
    \/ \E s \in Spectra : store_reference_spectrum(s)
    \/ \E s \in SteadySpectra : store_dark_spectrum(s)
    \/ \E r \in BaselineRequests : start_measurement(r)
    \/ PstatSample
    \/ PstatComplete
    \/ \E w \in Workers : run_measurement(w)

SpecBaselines == Init /\ [][NextBaselines]_vars

\* C22: the reference and dark spectra that enter the transform of a capture
\* are the ones written to the baseline files of the output file the record
\* goes to, whatever is stored while the run goes on.
C22_BaselinesFixedAtStart ==
    [][ \A w \in Workers :
           (pc[w] = "capture" /\ pc'[w] = "write_row")
              => /\ Transformed.ref \in {NoSpectrum, outfile.ref_spec}
                 /\ Transformed.dark \in {NoSpectrum, outfile.dark_spec} ]_vars


\* The slice of the program in which notification matters: the instruments
\* are connected, a reference may be stored, the e-mail list is edited, and
\* runs are started, aborted and notified.
NotifyRequests ==
    [wave : {BaseWave}, coll : {BaseColl}, kind : {"Raw Int."},
     use_pstat : {TRUE}, use_spec : {TRUE}]

NextNotify ==
    \/ connect_pstat(TRUE)
    \/ connect_spectrometer
    \/ \E s \in SteadySpectra : store_reference_spectrum(s)
    \/ \E e \in EmailInputs : edit_emails(e)
    \/ \E r \in NotifyRequests : start_measurement(r)
    \/ abort_measurement
    \/ PstatSample
    \/ PstatComplete
    \/ \E w \in Workers : run_measurement(w)
    \/ \E w \in Workers : notify(w)

SpecNotify == Init /\ [][NextNotify]_vars

\* Worker w has just made its notification attempt.
Notifies(w) == pc[w] = "notify" /\ pc'[w] # "notify"

\* C23: what a session hands to the bundler is fixed by its start: the
\* reference file is put in the bundle exactly when a reference file was
\* written for the session's output file, whatever was stored or connected
\* while the session went on.
C23_BundleFixedAtStart ==
    [][ \A w \in Workers :
           Notifies(w) => sent'[Len(sent')].with_ref = outfile.ref ]_vars

\* Worker w is the only merge worker there has been, and no later start
\* request has opened another output file.
OnlySession(w) ==
    /\ \A v \in Workers \ {w} : pc[v] = "none"
    /\ outfile.id = w

\* C26: a notification attempt that fails, caught or not, changes nothing of
\* the acquisition (running flag, output file, cell, curve), and it is made
\* with the worker's session already ended: with no other session begun
\* since, running is False (a start request is accepted), the cell is off,
\* the output file is closed and on disk and the raw file is written.
C26_NotifyFailureAfterEnd ==
    [][ \A w \in Workers :
           (Notifies(w) /\ sent'[Len(sent')].result # "sent")
              => /\ UNCHANGED <<running, outfile, nfiles, cell, acq_curve, signal>>
                 /\ OnlySession(w)
                       => /\ ~running
                          /\ ~cell
                          /\ ~outfile.open
                          /\ outfile.flushed = Len(outfile.body)
                          /\ outfile.raw ]_vars

\* C26 witness: the notification of the only session raised an exception
\* that ended the worker thread; running is False and the file is closed.
C26_Witness ==
    /\ Len(sent) = 1
    /\ sent[1].result = "raised"
    /\ pc[sent[1].w] = "crashed"
    /\ OnlySession(sent[1].w)
    /\ ~running
    /\ ~outfile.open

\* C27: a notification is attempted only with recipients configured (never
\* with an empty or absent list), and at most once by each merge worker.
C27_NotifiedOnceWithRecipients ==
    /\ \A i \in 1..Len(sent) : sent[i].to \notin {"", "None"}
    /\ \A i, j \in 1..Len(sent) : sent[i].w = sent[j].w => i = j


\* ------------------------------------------- display threads and a session

\* The status threads beside one session: both instruments connected (which
\* starts update_pstat_readinglabels, L383, and draw_spec, L437-439), one
\* request, the potentiostat's curve and the merge worker.
DisplayRequests ==
    [wave : {BaseWave}, coll : {BaseColl}, kind : {"Raw Int."},
     use_pstat : {TRUE}, use_spec : {TRUE}]

NextDisplay ==
    \/ connect_pstat(TRUE)
    \/ connect_spectrometer
    \/ \E r \in DisplayRequests : start_measurement(r)
    \/ PstatSample
    \/ PstatComplete
    \/ \E w \in Workers : run_measurement(w)
    \/ pstat_labels_check
    \/ pstat_labels_show
    \/ draw_spec_capture
    \/ draw_spec_draw

SpecDisplay == Init /\ [][NextDisplay]_vars

\* The merge worker's calls on the instruments: acq_curve.running() and
\* last_data_point() (L879-881), spectrometer.intensities (L887).
ReadsPstat(w) == pc[w] = "loop" /\ pc'[w] # "loop"
Captures(w)   == pc[w] = "capture" /\ pc'[w] = "write_row"

\* C24: no two threads have hardware calls to the same instrument in
\* progress together: the merge worker never captures a spectrum while the
\* live-spectrum thread is inside its capture, and never reads the
\* potentiostat while the status thread is inside measure_v / measure_i.
C24_NoOverlappingHardwareCalls ==
    [][ \A w \in Workers :
           /\ Captures(w) => spec_poll # "capture"
           /\ ReadsPstat(w) => pstat_poll # "measure" ]_vars

\* C25: while a session is running no status thread is inside an
\* instantaneous-reading call (measure_v, measure_i, a spectrometer capture),
\* however its test of running interleaves with the start.
C25_DisplayYieldsWhileRunning ==
    running => (pstat_poll # "measure" /\ spec_poll # "capture")


\* ------------------------------------------------ computations on their own

\* numpy's float64 values as far as the transforms tell them apart: a finite
\* quotient n/d of integers (d > 0), the two infinities, NaN, and the
\* negated decimal logarithm of a positive finite quotient, kept as written.
Fin(n, d)    == [cls |-> "fin", n |-> n, d |-> d]
NegLog(n, d) == [cls |-> "neglog", n |-> n, d |-> d]
PosInf == [cls |-> "inf", n |-> 1, d |-> 0]
NegInf == [cls |-> "-inf", n |-> -1, d |-> 0]
NaN    == [cls |-> "nan", n |-> 0, d |-> 0]

\* a - b on numpy arrays, one element (L893, L895).
NpSub(a, b) == a - b

\* A division that puts 0 where the divisor is 0.
NpDivMasked(n, d) ==
    IF d = 0 THEN Fin(0, 1)
    ELSE IF d < 0 THEN Fin(-n, -d) ELSE Fin(n, d)

\* a / b on numpy arrays, one element (L895, L898): a zero divisor gives
\* +-inf, or NaN for 0 / 0, with a RuntimeWarning and no exception.
NpDiv(n, d) ==
    IF d = 0 THEN (IF n = 0 THEN NaN ELSE IF n > 0 THEN PosInf ELSE NegInf)
    ELSE IF d < 0 THEN Fin(-n, -d) ELSE Fin(n, d)

\* -1 * np.log10(x), one element (L899): log10(0) = -inf, log10 of a
\* negative number or of NaN is NaN, log10(inf) = inf.
NegLog10(x) ==
    IF x.cls = "nan" \/ x.cls = "-inf" THEN NaN
    ELSE IF x.cls = "inf" THEN NegInf
    ELSE IF x.n = 0 THEN PosInf
    ELSE IF x.n < 0 THEN NaN
    ELSE NegLog(x.n, x.d)

\* One pixel of each branch.
RawAt(r)          == Fin(r, 1)
RefSubAt(r, f)    == Fin(NpSub(r, f), 1)
FracAt(r, f, d)   == NpDiv(NpSub(r, d), NpSub(f, d))
AbsAt(r, f, d)    == NegLog10(FracAt(r, f, d))

Computed(v) == [st |-> "ok", v |-> v]
Failed(how) == [st |-> how, v |-> <<>>]
NotApplied  == Failed("not applied")
NotTimed    == [cls |-> "none", n |-> 0, d |-> 0]

\* run_measurement, L890-899: the branch for self.running_intensity_type,
\* anything that is none of the first three being computed as absorbance.
RunTransform(kind, raw, ref, dark) ==
    Computed([i \in DOMAIN raw |->
        IF kind = "Raw Int." THEN RawAt(raw[i])
        ELSE IF kind = "Raw Int. - Ref" THEN RefSubAt(raw[i], ref[i])
        ELSE IF kind = "%T or %R" THEN FracAt(raw[i], ref[i], dark[i])
        ELSE AbsAt(raw[i], ref[i], dark[i])])

\* draw_spec, L456-500: every branch but the raw one also asks for
\* has_reference_spec; with no branch taken nothing is drawn.
DrawTransform(kind, raw, ref, dark, has_ref) ==
    IF kind = "Raw Int." THEN Computed([i \in DOMAIN raw |-> RawAt(raw[i])])
    ELSE IF kind = "Raw Int. - Ref" /\ has_ref
      THEN Computed([i \in DOMAIN raw |-> RefSubAt(raw[i], ref[i])])
    ELSE IF kind = "%T or %R" /\ has_ref
      THEN Computed([i \in DOMAIN raw |-> FracAt(raw[i], ref[i], dark[i])])
    ELSE IF kind = "Abs" /\ has_ref
      THEN Computed([i \in DOMAIN raw |-> AbsAt(raw[i], ref[i], dark[i])])
    ELSE Failed("nothing drawn")

\* collect_spec_now, L562-619. The keys of filename_intensity_type (L572-575):
\* the second is spelt "Raw. Int. - Ref".
FilenameKeys == {"Raw Int.", "Raw. Int. - Ref", "%T or %R", "Abs"}

CollectTransform(kind, raw, ref, dark, has_ref) ==
    IF kind # "Raw Int." /\ ~has_ref THEN Failed("Error saving file")
    ELSE IF kind \notin FilenameKeys THEN Failed("KeyError")
    ELSE Computed([i \in DOMAIN raw |->
        IF kind = "Raw Int." THEN RawAt(raw[i])
        ELSE IF kind = "Raw Int. - Ref" THEN RefSubAt(raw[i], ref[i])
        ELSE IF kind = "%T or %R" THEN FracAt(raw[i], ref[i], dark[i])
        ELSE AbsAt(raw[i], ref[i], dark[i])])

\* The time of the forward sweeps alone.
calc_run_time_one_way(w) ==
    LET q == NpDiv(Abs(w.v2 - w.v1), w.scanrate)
    IN  [q EXCEPT !.n = q.n * w.cycles]

\* start_measurement, L857: np.abs(v2 - v1) / scanrate * 2 * cycles, in
\* seconds, as the quotient the division and the products leave.
calc_run_time(w) ==
    LET q == NpDiv(Abs(w.v2 - w.v1), w.scanrate)
    IN  [q EXCEPT !.n = (q.n * 2) * w.cycles]

\* Spectra of VecLen pixels with counts up to MaxCount.
VecLen == 2
MaxCount == 2
Vectors == [1..VecLen -> 0..MaxCount]

\* Waveforms start_measurement accepts and the driver builds.
PureWaves ==
    { BaseWave,
      Wave(TRUE, 1000, 0, 10, 1, 30000),     \* 1 -> 0 V
      Wave(TRUE, 0, 1000, 10, 2, 30000),     \* two cycles
      Wave(TRUE, -500, 1000, 20, 1, 30000),  \* -0.5 -> 1 V at 20 mV/s
      Wave(TRUE, 0, 1000, 30, 1, 30000) }    \* 30 mV/s: 66.67 s

\* The inputs of one computation and, once applied, what each path made of
\* them.
ProbeInputs ==
    [on : {"transform"}, kind : Kinds, raw : Vectors, ref : Vectors,
     dark : Vectors, has_ref : BOOLEAN, wave : {BaseWave},
     run : {NotApplied}, draw : {NotApplied}, collect : {NotApplied},
     run_time : {NotTimed}]
    \cup
    [on : {"run time"}, kind : {"Raw Int."}, raw : {[i \in 1..VecLen |-> 0]},
     ref : {[i \in 1..VecLen |-> 0]}, dark : {[i \in 1..VecLen |-> 0]},
     has_ref : {FALSE}, wave : PureWaves,
     run : {NotApplied}, draw : {NotApplied}, collect : {NotApplied},
     run_time : {NotTimed}]

InitPure ==
    /\ InitProgram
    /\ threads = NoThreads
    /\ probe \in ProbeInputs

Apart ==
    UNCHANGED <<gui, sent, pstat_poll, spec_poll, threads, plots, session, worker,
                report>>

\* The worker's branch on the probe's inputs; a session only starts with a
\* kind its reference check lets through (L710-715).
apply_run ==
    /\ probe.on = "transform" /\ probe.run = NotApplied
    /\ probe.kind = "Raw Int." \/ probe.has_ref
    /\ probe' = [probe EXCEPT !.run =
                    RunTransform(probe.kind, probe.raw, probe.ref, probe.dark)]
    /\ Apart

apply_draw ==
    /\ probe.on = "transform" /\ probe.draw = NotApplied
    /\ probe' = [probe EXCEPT !.draw =
                    DrawTransform(probe.kind, probe.raw, probe.ref, probe.dark,
                                  probe.has_ref)]
    /\ Apart

apply_collect ==
    /\ probe.on = "transform" /\ probe.collect = NotApplied
    /\ probe' = [probe EXCEPT !.collect =
                    CollectTransform(probe.kind, probe.raw, probe.ref, probe.dark,
                                     probe.has_ref)]
    /\ Apart

apply_run_time ==
    /\ probe.on = "run time" /\ probe.run_time = NotTimed
    /\ probe' = [probe EXCEPT !.run_time = calc_run_time(probe.wave)]
    /\ Apart

NextPure == apply_run \/ apply_draw \/ apply_collect \/ apply_run_time

SpecPure == InitPure /\ [][NextPure]_vars


\* What the transform is to give at one pixel, from the pixel's raw,
\* reference and dark counts: the value itself where it exists, no finite
\* number where the divisor is zero or the logarithm has no value.
NotFinite == {"inf", "-inf", "nan"}

TransformAt(kind, x, r, f, d) ==
    IF kind = "Raw Int." THEN x.cls = "fin" /\ x.n = r * x.d
    ELSE IF kind = "Raw Int. - Ref" THEN x.cls = "fin" /\ x.n = (r - f) * x.d
    ELSE IF kind = "%T or %R"
      THEN IF f = d THEN x.cls \in NotFinite
           ELSE x.cls = "fin" /\ x.n * (f - d) = (r - d) * x.d
    ELSE IF f = d \/ (r - d) * (f - d) <= 0 THEN x.cls \in NotFinite
         ELSE x.cls = "neglog" /\ x.n * (f - d) = (r - d) * x.d

\* C28: the transform applied to a recorded row is, pixel by pixel, raw;
\* raw - reference; (raw - dark) / (reference - dark); -log10 of that
\* quotient; a zero divisor or a non-positive quotient gives a non-finite
\* value, never a masked or clamped one.
C28_TransformAsSpecified ==
    (probe.on = "transform" /\ probe.run.st = "ok")
       => \A i \in 1..VecLen :
             TransformAt(probe.kind, probe.run.v[i],
                         probe.raw[i], probe.ref[i], probe.dark[i])

C28_Witness ==
    /\ probe.on = "transform" /\ probe.kind = "Abs" /\ probe.run.st = "ok"
    /\ \E i, j \in 1..VecLen :
         /\ probe.ref[i] = probe.dark[i] /\ probe.run.v[i].cls \in NotFinite
         /\ probe.run.v[j].cls = "neglog" /\ probe.run.v[j].n # probe.run.v[j].d

\* C29: for each kind and the same raw, dark and reference, the live
\* display, collect-now and the recording worker produce the same spectrum,
\* and none of them fails or falls through for a kind the others accept.
C29_PathsAgree ==
    (/\ probe.on = "transform" /\ probe.run.st = "ok"
     /\ probe.draw # NotApplied /\ probe.collect # NotApplied)
       => (probe.draw = probe.run /\ probe.collect = probe.run)

\* C30: the estimated run time of an accepted waveform is
\* |v2 - v1| / scanRate * 2 * cycles; 200 s for 0 -> 1 V at 10 mV/s, 1 cycle.
C30_RunTimeEstimate ==
    (probe.on = "run time" /\ probe.run_time # NotTimed)
       => LET w == probe.wave
              t == probe.run_time
              span == IF w.v2 >= w.v1 THEN w.v2 - w.v1 ELSE w.v1 - w.v2
          IN  /\ t.cls = "fin"
              /\ t.n * w.scanrate = span * 2 * w.cycles * t.d
              /\ (w.v1 = 0 /\ w.v2 = 1000 /\ w.scanrate = 10 /\ w.cycles = 1)
                    => t.n = 200 * t.d

C30_Witness ==
    /\ probe.on = "run time" /\ probe.wave = BaseWave
    /\ probe.run_time.cls = "fin" /\ probe.run_time.n = 200 * probe.run_time.d


\* C32: the primary output file of a session receives the header block, the
\* sentinel line and the column row (L794-824) before any record row, and
\* only rows of its own session: every row token in the file self.outfile
\* refers to was written after the header, by the worker of that file.
C32_HeaderThenOwnRows ==
    \A i \in 1..Len(outfile.body) :
       outfile.header /\ outfile.body[i].w = outfile.id


\* C36: the cell is on only while a merge worker is executing: whenever the
\* cell has been switched on and not yet off, some run_measurement thread is
\* alive; a worker that stops inside its loop leaves the cell off.
C36_CellOnOnlyWithWorker ==
    cell => \E w \in Workers : Alive(w)


\* An instrument the request does not select and that is not connected.
DeselectedUnconnected(r) ==
    \/ ~r.use_pstat /\ ~has_potentiostat
    \/ ~r.use_spec /\ ~has_spectrometer

\* C39: an instrument that is deselected and not connected is neither
\* required nor used: a start that cannot go on without it is refused by
\* the checks, so no step that creates an output file comes from a request
\* with such an instrument. Stated for the starts whose files all open.
C39_DeselectedInstrumentNotNeeded ==
    [][ (nfiles' # nfiles /\ outfile'.header
           /\ ~(has_potentiostat /\ has_spectrometer))
        => \A r \in Requests :
             DeselectedUnconnected(r) => ~start_measurement(r) ]_vars


CurrentSession ==
    CHOOSE w \in Workers :
       pc[w] # "none" /\ \A v \in Workers : v > w => pc[v] = "none"

\* C38: whenever the potentiostat status thread finds running set and reads
\* the cached point, the point has been stored by the merge worker of the
\* current session: it is assigned, it is a point, and it is not left over
\* from an earlier session.
C38_CachedPointOfCurrentSession ==
    [][ (running /\ pstat_poll = "check" /\ pstat_poll' # "check")
           => /\ most_recent_pstat_pt.pt = "point"
              /\ most_recent_pstat_pt.by = CurrentSession ]_vars


\* ------------------------------------------------------- plotting threads

\* plot_pstat_curve of session w: the thread comes out of a sleep (0.3 s at
\* L630, 3 s or 60 s at L658-661) to the loop test of L631.
plot_wake(w) ==
    /\ plot[w] \in {"wait", "sleep"}
    /\ plot' = [plot EXCEPT ![w] = "test"]
    /\ UNCHANGED <<gui, side, most_recent_pstat_pt, should_draw_pstat, session,
                   worker>>
    /\ Silent

\* L631-661: with should_draw_pstat set the thread plots self.acq_curve and
\* sleeps again (or goes round at once, L635-636); else it returns.
plot_test(w) ==
    /\ plot[w] = "test"
    /\ plot' = [plot EXCEPT ![w] = IF should_draw_pstat THEN "sleep" ELSE "ended"]
    /\ UNCHANGED <<gui, side, most_recent_pstat_pt, should_draw_pstat, session,
                   worker>>
    /\ Silent

\* Sessions one after the other, each with its plotting thread.
NextPlot ==
    \/ connect_pstat(TRUE)
    \/ connect_spectrometer
    \/ \E r \in DisplayRequests : start_measurement(r)
    \/ PstatSample
    \/ PstatComplete
    \/ \E w \in Workers : run_measurement(w)
    \/ \E w \in Workers : plot_wake(w)
    \/ \E w \in Workers : plot_test(w)

SpecPlot == Init /\ [][NextPlot]_vars

\* Session w has cleared should_draw_pstat (L924) and gone on.
Cleared(w) == pc[w] \in {"dump", "finish", "notify", "done"}

\* C37: a plotting thread belongs to the current session and ends once its
\* session has cleared should_draw_pstat: no thread passes the loop test and
\* plots again after its session has cleared the flag, also when another
\* session was started during its sleep.
C37_PlotterEndsWithItsSession ==
    [][ \A w \in Workers :
           (plot[w] = "test" /\ plot'[w] = "sleep") => ~Cleared(w) ]_vars


\* ------------------------------------------- display threads, all counted

InitThreads ==
    /\ InitProgram
    /\ threads = [NoThreads EXCEPT !.all = TRUE]
    /\ probe = NoProbe

\* Connections, repeated or not, with the handlers and threads of an idle
\* program.
NextThreads ==
    \/ \E found \in BOOLEAN : connect_pstat(found)
    \/ connect_spectrometer
    \/ \E t \in IntegChoices : set_integ_time(t)
    \/ \E s \in Spectra : store_reference_spectrum(s)
    \/ \E s \in Spectra : store_dark_spectrum(s)
    \/ pstat_labels_check
    \/ pstat_labels_show
    \/ draw_spec_capture
    \/ draw_spec_draw

SpecThreads == InitThreads /\ [][NextThreads]_vars

\* C35: at most one status-display thread per instrument is alive, after
\* any sequence of connections, repeated ones included.
C35_OneDisplayThreadPerInstrument ==
    threads.pstat <= 1 /\ threads.spec <= 1


\* ------------------------------------------------ the merge loop in time

\* time.sleep(self.num_freq_s) (L915), num_freq_s being collection_time_ms
\* / 1000 in seconds (L859): the pause in ms.
SleepNone(ms) == 0

SleepMs(ms) == ms

\* The run time start_measurement estimates (L857), in ms: the time after
\* which the ramp signal is exhausted and acq_curve.running() turns False.
RunMs(w) == (calc_run_time(w).n * 1000) \div calc_run_time(w).d

\* A collection interval of 5 s beside the base one, and integration times
\* of 50 ms and of the device minimum.
TimedColls == {Coll(TRUE, 5, "s"), BaseColl}
TimedIntegs == {50000, MinIntegMicros}

\* One run followed in time: now is the time in ms since acq_curve.run(True)
\* (L876); the capture takes the integration time, the pause its argument,
\* the other statements of the loop no time. tick is the number of passes
\* begun, tick_start the time the last one began, records the rows written.
TimelineInputs ==
    [on : {"timeline"}, run : {RunMs(BaseWave)},
     period : {CollectionTimeMs(c) : c \in TimedColls},
     capture : {i \div 1000 : i \in TimedIntegs},
     now : {0}, phase : {"test"}, tick : {0}, tick_start : {0}, records : {0}]

InitTimeline ==
    /\ InitProgram
    /\ threads = NoThreads
    /\ probe \in TimelineInputs

\* L879: the loop test; a pass begins while the acquisition is running.
loop_test ==
    /\ probe.on = "timeline" /\ probe.phase = "test"
    /\ probe' = IF probe.now < probe.run
                  THEN [probe EXCEPT !.phase = "capture", !.tick = @ + 1,
                                     !.tick_start = probe.now]
                  ELSE [probe EXCEPT !.phase = "ended"]
    /\ Apart

\* L881-887: the point is read and the spectrum captured.
loop_capture ==
    /\ probe.on = "timeline" /\ probe.phase = "capture"
    /\ probe' = [probe EXCEPT !.phase = "write", !.now = @ + probe.capture]
    /\ Apart

\* L889-913: the record is written.
loop_write ==
    /\ probe.on = "timeline" /\ probe.phase = "write"
    /\ probe' = [probe EXCEPT !.phase = "sleep", !.records = @ + 1]
    /\ Apart

\* L915: pause til next step.
loop_sleep ==
    /\ probe.on = "timeline" /\ probe.phase = "sleep"
    /\ probe' = [probe EXCEPT !.phase = "test", !.now = @ + SleepMs(probe.period)]
    /\ Apart

NextTimeline == loop_test \/ loop_capture \/ loop_write \/ loop_sleep

SpecTimeline == InitTimeline /\ [][NextTimeline]_vars

C33_NoDrift ==
    (/\ probe.on = "timeline" /\ probe.phase = "capture"
     /\ probe.capture < probe.period)
       => probe.tick_start = (probe.tick - 1) * probe.period

====
